---- MODULE Spec2Model ----
(***************************************************************************)
(* Model of IngredientConverterHelpers/convert_ingredients.py: the version *)
(* lookup in the previous JSON artifact (get_current_version), the unit    *)
(* normaliser (parse_unit) and the row loop of convert_to_json, which      *)
(* groups the rows of a spreadsheet into ingredient records and writes the *)
(* versioned document.                                                     *)
(*                                                                         *)
(* Text is a sequence of one-character strings, so that str(), strip(),    *)
(* lower() and float() are computed and not assumed.  A cell of the table  *)
(* is what pandas hands to the code: NaN for an empty cell, a str, a       *)
(* number; None is what row.get() gives for a column the table lacks and   *)
(* what parse_unit's defaulted parameters hold.                            *)
(***************************************************************************)
EXTENDS Integers, Sequences, FiniteSets, TLC

VARIABLES
    input,          \* the input table: the sequence of rows pandas reads from input_file
    artifact,       \* the file at output_file
    pc,             \* "idle" | "rows" (inside the for loop) | "done" | "aborted"
    i,              \* 1-based index of the row the loop handles next; 0 outside a run
    ingredients,    \* the insertion-ordered dict of convert_to_json: <<[key, data], ...>>
    new_version,    \* convert_to_json's new_version
    error,          \* the exception that ended the last run, "none" if none
    before,         \* history: the artifact as it was when the current or last run started
    runs,           \* history: number of runs started
    target,         \* history: for each row handled in this run, the position of its record
    uArgs,          \* the arguments of a direct parse_unit call
    uResult         \* its return value

vars == <<input, artifact, pc, i, ingredients, new_version, error, before, runs,
          target, uArgs, uResult>>

-----------------------------------------------------------------------------
(* Bounds *)

MaxRows == 2            \* rows in an input table
MaxRuns == 2            \* runs against one output artifact
MaxInitVersion == 2     \* largest version a pre-existing artifact carries

-----------------------------------------------------------------------------
(* Text *)

IsSpace(c) == c \in {" ", "\t"}

RECURSIVE LStrip(_)
LStrip(s) == IF s = <<>> THEN s
             ELSE IF IsSpace(Head(s)) THEN LStrip(Tail(s)) ELSE s

RECURSIVE RStrip(_)
RStrip(s) == IF s = <<>> THEN s
             ELSE IF IsSpace(s[Len(s)]) THEN RStrip(SubSeq(s, 1, Len(s) - 1)) ELSE s

\* str.strip()
Strip(s) == RStrip(LStrip(s))

LowerOf(c) == CASE c = "A" -> "a" [] c = "B" -> "b" [] c = "C" -> "c"
                [] c = "E" -> "e" [] c = "G" -> "g" [] OTHER -> c

\* str.lower()
Lower(s) == [k \in 1..Len(s) |-> LowerOf(s[k])]

DigitChars == <<"0", "1", "2", "3", "4", "5", "6", "7", "8", "9">>
IsDigit(c) == \E d \in 1..Len(DigitChars) : DigitChars[d] = c
DigitValue(c) == (CHOOSE d \in 1..Len(DigitChars) : DigitChars[d] = c) - 1

\* decimal text of a non-negative int, as str() prints it
RECURSIVE Digits(_)
Digits(n) == IF n < Len(DigitChars) THEN <<DigitChars[n + 1]>>
             ELSE Digits(n \div Len(DigitChars)) \o <<DigitChars[(n % Len(DigitChars)) + 1]>>

RECURSIVE DigitsValue(_)
DigitsValue(s) == IF s = <<>> THEN 0
                  ELSE DigitsValue(SubSeq(s, 1, Len(s) - 1)) * Len(DigitChars)
                       + DigitValue(s[Len(s)])

-----------------------------------------------------------------------------
(* Cells *)

NaN      == [t |-> "nan",  s |-> <<>>, n |-> 0]
None     == [t |-> "none", s |-> <<>>, n |-> 0]
Text(s)  == [t |-> "text", s |-> s,    n |-> 0]
Num(n)   == [t |-> "num",  s |-> <<>>, n |-> n]

\* pd.notna(x)
NotNa(c) == c.t \notin {"nan", "none"}

\* bool(x): NaN is a non-zero float, hence true
Truthy(c) == CASE c.t = "none" -> FALSE
               [] c.t = "nan"  -> TRUE
               [] c.t = "text" -> c.s # <<>>
               [] c.t = "num"  -> c.n # 0

\* str(x)
Str(c) == CASE c.t = "none" -> <<"N", "o", "n", "e">>
            [] c.t = "nan"  -> <<"n", "a", "n">>
            [] c.t = "text" -> c.s
            [] c.t = "num"  -> Digits(c.n)

\* float(x): [raised, nan, n]; a str is stripped and must be a decimal number
FloatOk(n)  == [raised |-> "none", nan |-> FALSE, n |-> n]
FloatNaN    == [raised |-> "none", nan |-> TRUE, n |-> 0]
FloatErr(e) == [raised |-> e, nan |-> FALSE, n |-> 0]

\* a float() that never raises: text that is no number becomes NaN
Float_Lenient(c) == CASE c.t = "num" -> FloatOk(c.n)
                      [] c.t = "text" /\ Strip(c.s) # <<>>
                         /\ (\A k \in 1..Len(Strip(c.s)) : IsDigit(Strip(c.s)[k]))
                            -> FloatOk(DigitsValue(Strip(c.s)))
                      [] OTHER -> FloatNaN

Float(c) == CASE c.t = "none" -> FloatErr("TypeError")
              [] c.t = "nan"  -> FloatNaN
              [] c.t = "num"  -> FloatOk(c.n)
              [] c.t = "text" ->
                    LET d == Strip(c.s) IN
                    IF d # <<>> /\ \A k \in 1..Len(d) : IsDigit(d[k])
                    THEN FloatOk(DigitsValue(d))
                    ELSE FloatErr("ValueError")

-----------------------------------------------------------------------------
(* parse_unit *)

Simple(s)   == [t |-> "simple", unit |-> s, singular |-> <<>>, plural |-> <<>>]
Count(s, p) == [t |-> "count",  unit |-> <<>>, singular |-> s, plural |-> p]

parse_unit(unit_str, singular, plural) ==
    LET u == IF NotNa(unit_str) THEN Strip(Str(unit_str)) ELSE <<>> IN
    IF NotNa(singular) /\ NotNa(plural)
    THEN Count(Strip(Str(singular)), Strip(Str(plural)))
    ELSE Simple(Lower(u))

-----------------------------------------------------------------------------
(* The artifact at output_file *)

VInt(n) == [t |-> "int", n |-> n]
VOther  == [t |-> "other", n |-> 0]     \* a JSON value that is no number: a string, null, a list

\* file: "absent" | "unreadable" (open or read raises IOError) | "undecodable" (bytes that
\* are no text: read raises UnicodeDecodeError) | "malformed" (text that is no JSON) | "json";
\* kind, of the parsed JSON value: "object" | "array" | "string" | "scalar" (number, boolean,
\* null); hasVersion: "version" is a key of the object, an element of the array, a substring
\* of the string; version: the value under that key of an object.
File(f) == [file |-> f, kind |-> "none", hasVersion |-> FALSE, version |-> VInt(0),
            ingredients |-> <<>>]
Json(k, hv, v, ings) == [file |-> "json", kind |-> k, hasVersion |-> hv, version |-> v,
                         ingredients |-> ings]

Absent == File("absent")

Return(v) == [raised |-> "none", value |-> v]
Raise(e)  == [raised |-> e, value |-> VInt(0)]

\* a lookup that reads the file but not its version field
get_current_version_Zero(a) ==
    CASE a.file = "undecodable" -> Raise("UnicodeDecodeError")
      [] a.file = "json" /\ a.kind = "scalar" -> Raise("TypeError")
      [] a.file = "json" /\ a.kind # "object" /\ a.hasVersion -> Raise("TypeError")
      [] OTHER -> Return(VInt(0))

get_current_version(a) ==
    CASE a.file = "absent"      -> Return(VInt(0))
      [] a.file = "unreadable"  -> Return(VInt(0))
      [] a.file = "malformed"   -> Return(VInt(0))
      [] a.file = "undecodable" -> Raise("UnicodeDecodeError")
      [] a.file = "json" ->
            IF a.kind = "scalar" THEN Raise("TypeError")
            ELSE IF a.hasVersion
                 THEN IF a.kind = "object" THEN Return(a.version) ELSE Raise("TypeError")
                 ELSE Return(VInt(0))

\* a run that stamps the version it read
NextVersion_Same(cur) ==
    IF cur.raised # "none" THEN cur
    ELSE IF cur.value.t = "int" THEN Return(VInt(cur.value.n))
    ELSE Raise("TypeError")

\* current_version + 1
NextVersion(cur) ==
    IF cur.raised # "none" THEN cur
    ELSE IF cur.value.t = "int" THEN Return(VInt(cur.value.n + 1))
    ELSE Raise("TypeError")

-----------------------------------------------------------------------------
(* Rows *)

Columns == {"ID", "Name", "Category", "Brand",
            "From Amount", "From Unit", "From Unit Singular", "From Unit Plural",
            "To Amount", "To Unit", "To Unit Singular", "To Unit Plural"}

\* row.get(c)
Get(row, c) == IF c \in DOMAIN row THEN row[c] ELSE None

\* row[c] raises KeyError when the table has no column c
Has(row, c) == c \in DOMAIN row

\* the pattern of lines 101, 103, 104: str(x).strip() if pd.notna(x) and x else None,
\* None being [some |-> FALSE]
NoStr      == [some |-> FALSE, s |-> <<>>]
SomeStr(s) == [some |-> TRUE, s |-> s]
OptStr(c) == IF NotNa(c) /\ Truthy(c) THEN SomeStr(Strip(Str(c))) ELSE NoStr
\* bool() of such a value
Given(o) == o.some /\ o.s # <<>>

ingredient_id(row) == OptStr(Get(row, "ID"))
name(row)          == Strip(Str(row["Name"]))
category(row)      == OptStr(Get(row, "Category"))
brand(row)         == OptStr(row["Brand"])

key(row) == IF Given(ingredient_id(row)) THEN ingredient_id(row).s ELSE name(row)

from_unit(row) == parse_unit(row["From Unit"], Get(row, "From Unit Singular"),
                             Get(row, "From Unit Plural"))
to_unit(row)   == parse_unit(row["To Unit"], Get(row, "To Unit Singular"),
                             Get(row, "To Unit Plural"))

conversion(row) == [fromAmount |-> Float(row["From Amount"]), fromUnit |-> from_unit(row),
                    toAmount |-> Float(row["To Amount"]), toUnit |-> to_unit(row)]

\* the exception the loop body raises on this row, in the order the body evaluates
RowError(row) ==
    CASE ~Has(row, "Name")        -> "KeyError"
      [] ~Has(row, "Brand")       -> "KeyError"
      [] ~Has(row, "From Unit")   -> "KeyError"
      [] ~Has(row, "To Unit")     -> "KeyError"
      [] ~Has(row, "From Amount") -> "KeyError"
      [] Float(row["From Amount"]).raised # "none" -> Float(row["From Amount"]).raised
      [] ~Has(row, "To Amount")   -> "KeyError"
      [] Float(row["To Amount"]).raised # "none" -> Float(row["To Amount"]).raised
      [] OTHER -> "none"

\* the dict built at lines 131-141: a key is in its DOMAIN iff the dict has it
ingredient_data(row) ==
    LET base == [name |-> name(row), conversions |-> <<>>]
        d1 == IF Given(ingredient_id(row)) THEN base @@ ("id" :> ingredient_id(row).s)
              ELSE base
        d2 == IF Given(category(row)) THEN d1 @@ ("category" :> category(row).s) ELSE d1
    IN  IF Given(brand(row)) THEN d2 @@ ("brand" :> brand(row).s) ELSE d2

\* key in ingredients
HasKey(ings, k) == \E p \in 1..Len(ings) : ings[p].key = k
PositionOf(ings, k) == CHOOSE p \in 1..Len(ings) : ings[p].key = k

\* last-write-wins: a row under a known key replaces the record's descriptive fields
AddToIngredients_LastWins(ings, row) ==
    LET withKey == IF HasKey(ings, key(row)) THEN ings
                   ELSE Append(ings, [key |-> key(row), data |-> ingredient_data(row)])
        p == PositionOf(withKey, key(row))
        old == withKey[p].data.conversions
    IN  [withKey EXCEPT ![p].data =
            [ingredient_data(row) EXCEPT !.conversions = Append(old, conversion(row))]]

\* a new record goes to the front of the collection
AddToIngredients_Front(ings, row) ==
    LET withKey == IF HasKey(ings, key(row)) THEN ings
                   ELSE <<[key |-> key(row), data |-> ingredient_data(row)]>> \o ings
        p == PositionOf(withKey, key(row))
    IN  [withKey EXCEPT ![p].data.conversions = Append(@, conversion(row))]

\* the row that creates a record leaves no conversion in it
AddToIngredients_NewEmpty(ings, row) ==
    IF HasKey(ings, key(row))
    THEN [ings EXCEPT ![PositionOf(ings, key(row))].data.conversions =
              Append(@, conversion(row))]
    ELSE Append(ings, [key |-> key(row), data |-> ingredient_data(row)])

\* lines 130-144
AddToIngredients(ings, row) ==
    LET withKey == IF HasKey(ings, key(row)) THEN ings
                   ELSE Append(ings, [key |-> key(row), data |-> ingredient_data(row)])
        p == PositionOf(withKey, key(row))
    IN  [withKey EXCEPT ![p].data.conversions = Append(@, conversion(row))]

\* list(ingredients.values())
Values(ings) == [p \in 1..Len(ings) |-> ings[p].data]

-----------------------------------------------------------------------------
(* The run: convert_to_json(input_file, output_file) *)

\* lines 70-84: resolve the version, read the table
StartRun ==
    /\ pc \in {"idle", "done", "aborted"}
    /\ runs < MaxRuns
    /\ runs' = runs + 1
    /\ before' = artifact
    /\ ingredients' = <<>>
    /\ target' = <<>>
    /\ LET nv == NextVersion(get_current_version(artifact)) IN
       IF nv.raised # "none"
       THEN /\ pc' = "aborted"
            /\ error' = nv.raised
            /\ i' = 0
            /\ UNCHANGED new_version
       ELSE /\ pc' = "rows"
            /\ error' = "none"
            /\ i' = 1
            /\ new_version' = nv.value.n
    /\ UNCHANGED <<input, artifact, uArgs, uResult>>

\* lines 99-144: one pass of the loop body
ProcessRow ==
    /\ pc = "rows"
    /\ i <= Len(input)
    /\ IF RowError(input[i]) # "none"
       THEN /\ pc' = "aborted"
            /\ error' = RowError(input[i])
            /\ UNCHANGED <<i, ingredients, target>>
       ELSE /\ ingredients' = AddToIngredients(ingredients, input[i])
            /\ target' = Append(target, PositionOf(ingredients', key(input[i])))
            /\ i' = i + 1
            /\ UNCHANGED <<pc, error>>
    /\ UNCHANGED <<input, artifact, new_version, before, runs, uArgs, uResult>>

\* lines 146-162: the loop is over; build the document and write it
WriteOutput ==
    /\ pc = "rows"
    /\ i > Len(input)
    /\ artifact' = Json("object", TRUE, VInt(new_version), Values(ingredients))
    /\ pc' = "done"
    /\ UNCHANGED <<input, i, ingredients, new_version, error, before, runs, target,
                   uArgs, uResult>>

\* the caller, after a run that a row aborted: take the offending row out of the table
RemoveAt(s, k) == SubSeq(s, 1, k - 1) \o SubSeq(s, k + 1, Len(s))

FixInput ==
    /\ pc = "aborted"
    /\ i >= 1
    /\ input' = RemoveAt(input, i)
    /\ pc' = "idle"
    /\ i' = 0
    /\ UNCHANGED <<artifact, ingredients, new_version, error, before, runs, target,
                   uArgs, uResult>>

\* a direct call parse_unit(unit_str, singular, plural)
CallParseUnit ==
    /\ uResult = <<>>
    /\ uResult' = <<parse_unit(uArgs[1], uArgs[2], uArgs[3])>>
    /\ UNCHANGED <<input, artifact, pc, i, ingredients, new_version, error, before,
                   runs, target, uArgs>>

-----------------------------------------------------------------------------
(* Inputs *)

sp == <<" ">>

Row(id, nm, cat, br, fa, fu, fus, fup, ta, tu, tus, tup) ==
    [c \in Columns |->
        CASE c = "ID" -> id [] c = "Name" -> nm [] c = "Category" -> cat
          [] c = "Brand" -> br
          [] c = "From Amount" -> fa [] c = "From Unit" -> fu
          [] c = "From Unit Singular" -> fus [] c = "From Unit Plural" -> fup
          [] c = "To Amount" -> ta [] c = "To Unit" -> tu
          [] c = "To Unit Singular" -> tus [] c = "To Unit Plural" -> tup]

Cup  == Text(<<"C", "u", "p">>)
Gram == Text(<<"g", "r", "a", "m">>)

\* an ordinary row: 1 Cup = 5 gram
Plain(id, nm, cat, br) == Row(id, nm, cat, br, Num(1), Cup, NaN, NaN, Num(5), Gram, NaN, NaN)

IDCells    == {NaN, Text(sp), Text(<<"a">>), Num(0)}
NameCells  == {Text(<<"a">>), Text(<<" ", "a">>), Text(<<"b">>)}
CatCells   == {Text(sp), Text(<<"d">>), Num(0)}
BrandCells == {Text(sp), Text(<<"e", " ">>), Num(0)}

\* text that float() rejects
NonNumericCells == {Text(<<"1", "x">>)}
\* the other amounts: numbers, an empty cell, a number typed as text
AmountCells == {Num(2), NaN, Text(<<" ", "1", "2">>)}

\* rows that differ in ID and Name, and two that have no name
IdentityRows == {Plain(id, nm, NaN, NaN) : id \in IDCells, nm \in NameCells}
                \cup {Plain(id, NaN, NaN, NaN) : id \in {NaN, Text(<<"a">>)}}
\* rows of one ingredient that differ in Category and Brand
DescRows     == {Plain(Text(<<"a">>), Text(<<"b">>), cat, br) :
                    cat \in CatCells, br \in BrandCells}
\* rows that differ in an amount
AmountRows   ==
    {Row(NaN, Text(<<"a">>), NaN, NaN, fa, Cup, NaN, NaN, Num(5), Gram, NaN, NaN) :
        fa \in AmountCells \cup NonNumericCells}
    \cup {Row(NaN, Text(<<"a">>), NaN, NaN, Num(1), Cup, NaN, NaN, ta, Gram, NaN, NaN) :
        ta \in NonNumericCells}
\* a row with a count unit
UnitRows     ==
    {Row(NaN, Text(<<"b">>), NaN, NaN, Num(1), NaN, Text(<<"e", "g", "g">>),
         Text(<<"e", "g", "g", "s">>), Num(5), Gram, NaN, NaN)}

Rows == IdentityRows \cup DescRows \cup AmountRows \cup UnitRows

Tables(rows) == UNION {[1..n -> rows] : n \in 0..MaxRows}

\* what a previous run, or anything else, may have left at output_file
PriorIngredients == <<[name |-> <<"o">>, conversions |-> <<>>]>>
PriorArtifacts ==
    {Absent, File("unreadable"), File("undecodable"), File("malformed")}
    \cup {Json("scalar", FALSE, VInt(0), <<>>)}
    \cup {Json(k, hv, VInt(0), <<>>) : k \in {"array", "string"}, hv \in BOOLEAN}
    \cup {Json("object", FALSE, VInt(0), PriorIngredients)}
    \cup {Json("object", TRUE, VInt(n), PriorIngredients) : n \in 0..MaxInitVersion}
    \cup {Json("object", TRUE, VOther, PriorIngredients)}

-----------------------------------------------------------------------------
(* Specifications *)

InitWith(tables, artifacts, calls) ==
    /\ input \in tables
    /\ artifact \in artifacts
    /\ pc = "idle"
    /\ i = 0
    /\ ingredients = <<>>
    /\ new_version = 0
    /\ error = "none"
    /\ before = artifact
    /\ runs = 0
    /\ target = <<>>
    /\ uArgs \in calls
    /\ uResult = <<>>

NoCall == <<None, None, None>>

\* runs over the tables of Rows, starting with no artifact
Init == InitWith(Tables(Rows), {Absent}, {NoCall})

Next == StartRun \/ ProcessRow \/ WriteOutput \/ FixInput

Spec == Init /\ [][Next]_vars

\* runs over a few tables, on every kind of prior artifact
VersionRows == {Plain(NaN, Text(<<"a">>), NaN, NaN)}
               \cup {Row(NaN, Text(<<"b">>), NaN, NaN, Num(1), Cup, NaN, NaN, ta, Gram,
                         NaN, NaN) : ta \in NonNumericCells}

InitVersions == InitWith(Tables(VersionRows), PriorArtifacts, {NoCall})

SpecVersions == InitVersions /\ [][Next]_vars

\* direct calls of parse_unit
UnitCells == {None, NaN, Text(<<>>), Text(sp), Text(<<" ", "E", "g", "g">>),
              Text(<<"e", "g", "g", "s", " ">>), Num(0)}

InitUnit == InitWith({<<>>}, {Absent}, UnitCells \X UnitCells \X UnitCells)

NextUnit == CallParseUnit

SpecUnit == InitUnit /\ [][NextUnit]_vars

\* runs over tables that lack one of the optional columns
OptionalColumns == {"ID", "Category", "Brand", "From Unit Singular", "From Unit Plural",
                    "To Unit Singular", "To Unit Plural"}

\* a row of a table read from a file without the columns d
Without(row, d) == [c \in (DOMAIN row) \ d |-> row[c]]

ColumnRows ==
    {Plain(Text(<<"a">>), Text(<<"b">>), Text(<<"d">>), Text(<<"e", " ">>)),
     Plain(NaN, Text(<<"a">>), NaN, NaN),
     Row(Text(<<"j">>), Text(<<"b">>), Text(<<"d">>), NaN, Num(2), NaN,
         Text(<<"e", "g", "g">>), Text(<<"e", "g", "g", "s">>), Num(5), Gram,
         Text(<<"g">>), Text(<<"g", "s">>))}

ColumnTables == UNION {Tables({Without(r, d) : r \in ColumnRows}) :
                          d \in {{}} \cup {{c} : c \in OptionalColumns}}

InitColumns == InitWith(ColumnTables, {Absent}, {NoCall})

SpecColumns == InitColumns /\ [][Next]_vars

-----------------------------------------------------------------------------
(* Vocabulary of the claims *)

\* a run has entered the loop: rows 1..i-1 of input are the rows handled so far
InRun == pc \in {"rows", "done", "aborted"} /\ i >= 1
Handled == IF InRun THEN 1..(i - 1) ELSE {}

Min(S) == CHOOSE x \in S : \A y \in S : x <= y

\* a cell that provides a value: a number, or text that is not only whitespace
NonBlank(c) == c.t = "num" \/ (c.t = "text" /\ Strip(c.s) # <<>>)
\* its trimmed text, empty for a blank cell
Trimmed(c) == IF NonBlank(c) THEN Strip(Str(c)) ELSE <<>>

\* the IdentityKey of the data model
IdentityKey(row) == IF NonBlank(row["ID"]) THEN Trimmed(row["ID"]) ELSE Trimmed(row["Name"])

\* the row that created record p: the first row handled whose conversion went to p
Establishing(p) == Min({j \in Handled : target[j] = p})

\* a record without its conversions
Descriptive(d) == [f \in (DOMAIN d) \ {"conversions"} |-> d[f]]

\* the distinct elements of a sequence, in the order of their first appearance
RECURSIVE FirstAppearance(_)
FirstAppearance(s) ==
    IF s = <<>> THEN <<>>
    ELSE LET front == SubSeq(s, 1, Len(s) - 1)
             last  == s[Len(s)]
         IN  IF \E j \in 1..Len(front) : front[j] = last
             THEN FirstAppearance(front)
             ELSE Append(FirstAppearance(front), last)

\* the version an artifact holds: its version field, 0 when it has none to read
HeldVersion(a) ==
    IF a.file = "json" /\ a.kind = "object" /\ a.hasVersion /\ a.version.t = "int"
    THEN a.version.n ELSE 0

IsDocument(a) == a.file = "json" /\ a.kind = "object"

\* the last run started did not end inside the version lookup
Resolved == runs >= 1 /\ ~(pc = "aborted" /\ i = 0)

\* every row of the table has a name
Named == \A j \in 1..Len(input) : NonBlank(Get(input[j], "Name"))

BadAmount(row) == row["From Amount"] \in NonNumericCells \/ row["To Amount"] \in NonNumericCells

-----------------------------------------------------------------------------
(* Claims *)

C2_VersionMonotonic ==
    [][ /\ (pc' = "done" /\ pc # "done") =>
              /\ IsDocument(artifact') /\ artifact'.hasVersion
              /\ artifact'.version = VInt(HeldVersion(before') + 1)
        /\ ~(pc' = "done" /\ pc # "done") => artifact' = artifact
        /\ pc' = "aborted" => artifact' = before'
        /\ HeldVersion(artifact') >= HeldVersion(artifact) ]_vars

\* the second run against an artifact has completed and raised its version again
C2_Witness ==
    /\ pc = "done"
    /\ runs >= 2
    /\ HeldVersion(before) >= 1
    /\ HeldVersion(artifact) = HeldVersion(before) + 1

\* C3: the next version is 1 when there is no artifact, 1 when the artifact is a
\* document without a version field, and the version field plus one when the document
\* has a (numeric) version field.
C3_NextVersion ==
    runs >= 1 =>
        /\ before.file = "absent" => Resolved /\ new_version = 1
        /\ (IsDocument(before) /\ ~before.hasVersion) => Resolved /\ new_version = 1
        /\ (IsDocument(before) /\ before.hasVersion /\ before.version.t = "int") =>
              Resolved /\ new_version = before.version.n + 1

\* a run started on a document of version 2 and goes on with version 3
C3_Witness ==
    /\ pc = "rows"
    /\ IsDocument(before) /\ before.hasVersion /\ before.version = VInt(2)
    /\ new_version = 3

\* C4: an artifact that exists but is unreadable, malformed or not a document object
\* never makes the version lookup raise: the run goes on with version 1.
C4_LookupNeverRaises ==
    (runs >= 1 /\ before.file # "absent" /\ ~IsDocument(before)) =>
        Resolved /\ new_version = 1

\* C5: two rows handled go to the same record iff their IdentityKeys are equal, and
\* there are as many records as distinct IdentityKeys (stated of tables whose rows
\* all have a name).
C5_GroupedByIdentityKey ==
    (InRun /\ Named) =>
        /\ \A j, k \in Handled :
              (target[j] = target[k]) <=> (IdentityKey(input[j]) = IdentityKey(input[k]))
        /\ Len(ingredients) = Cardinality({IdentityKey(input[j]) : j \in Handled})

C7_ParseUnit ==
    uResult # <<>> =>
        uResult[1] = IF NonBlank(uArgs[2]) /\ NonBlank(uArgs[3])
                     THEN Count(Trimmed(uArgs[2]), Trimmed(uArgs[3]))
                     ELSE Simple(Lower(Trimmed(uArgs[1])))

\* C8: the loop never gets past a row whose Name is blank: the run aborts on it and
\* no record is made from it.
C8_BlankNameAborts ==
    InRun => \A j \in 1..Len(input) : ~NonBlank(Get(input[j], "Name")) => i <= j

C10_OptionalKeys ==
    (InRun /\ Named) =>
        \A p \in 1..Len(ingredients) :
            LET d == ingredients[p].data
                r == input[Establishing(p)]
            IN  /\ ("id" \in DOMAIN d) <=> NonBlank(r["ID"])
                /\ ("category" \in DOMAIN d) <=> NonBlank(r["Category"])
                /\ ("brand" \in DOMAIN d) <=> NonBlank(r["Brand"])
                /\ \A f \in {"id", "category", "brand"} \cap DOMAIN d : d[f] # <<>>


\* the row as it would be read from a table that has every column, blank where this
\* table has none
Filled(row) == [c \in Columns |-> IF c \in DOMAIN row THEN row[c] ELSE NaN]

\* the records the loop builds from the first n rows of a table, read that way
RECURSIVE Aggregated(_, _)
Aggregated(tbl, n) ==
    IF n = 0 THEN <<>> ELSE AddToIngredients(Aggregated(tbl, n - 1), Filled(tbl[n]))

\* C11: a run over a table that lacks optional columns goes as the run over the same
\* table with those columns present and blank: it raises no KeyError, it aborts where
\* that run aborts, and it builds and writes the same records.
C11_MissingColumnAsBlank ==
    (InRun /\ \A j \in 1..Len(input) : (Columns \ DOMAIN input[j]) \subseteq OptionalColumns) =>
        /\ error # "KeyError"
        /\ \A j \in Handled : RowError(Filled(input[j])) = "none"
        /\ pc = "aborted" => RowError(Filled(input[i])) = error
        /\ ingredients = Aggregated(input, i - 1)
        /\ pc = "done" => artifact.ingredients = Values(Aggregated(input, Len(input)))


\* the conversions of those of the first n rows of the table whose key is k, in
\* stream order
RECURSIVE ConversionsUnder(_, _)
ConversionsUnder(k, n) ==
    IF n = 0 THEN <<>>
    ELSE IF key(input[n]) = k
         THEN Append(ConversionsUnder(k, n - 1), conversion(input[n]))
         ELSE ConversionsUnder(k, n - 1)

\* the number of conversions in a sequence of records
RECURSIVE TotalConversions(_)
TotalConversions(recs) ==
    IF recs = <<>> THEN 0
    ELSE Len(Head(recs).conversions) + TotalConversions(Tail(recs))

====
